---------------------------- MODULE Spec2Model ----------------------------
(***************************************************************************)
(* A model of the option cells of libgnucash/app-utils/gnc-option.hpp:     *)
(* the classifier, the UI mixin (OptionUIItem), the typed cells            *)
(* (GncOptionValue, GncOptionValidatedValue, GncOptionRangeValue,          *)
(* GncOptionMultichoiceValue, GncOptionDateValue) and the facade GncOption *)
(* over the variant GncOptionVariant.                                      *)
(*                                                                         *)
(* One cell is modelled.  `option` is the cell object: a record whose      *)
(* fields carry the names of the C++ members.  A call that throws sets     *)
(* `err` to the exception's type and leaves the object as the C++ code     *)
(* leaves it at the throw.  `op` records the last call and its arguments,  *)
(* `ret` the value it returned.                                            *)
(*                                                                         *)
(* The file also carries gnc-plugin.c.  Its two window functions,          *)
(* gnc_plugin_add_to_window and gnc_plugin_remove_from_window, are         *)
(* modelled over one plugin class `klass` and one window `window`; `pc`    *)
(* holds the calls the running function has still to make and `trace` the *)
(* calls made so far, in order.                                            *)
(***************************************************************************)
EXTENDS Integers, Sequences, FiniteSets, TLC

VARIABLES option, op, err, ret, now, klass, window, pc, trace

optionVars == <<option, op, err, ret, now>>

pluginVars == <<klass, window, pc, trace>>

vars == <<option, op, err, ret, now, klass, window, pc, trace>>

---------------------------------------------------------------------------
(* Bounds of the model.                                                    *)

\* UI items are the pointers 1..MaxItem; nullptr is NullItem.
MaxItem == 2
\* QofInstance pointers are 1..MaxInstance; nullptr is 0.
MaxInstance == 2
\* The clock (GncDateTime()) runs over 0..MaxTime.
MaxTime == 2
\* Choice lists hold at most MaxChoices entries.
MaxChoices == 2
\* The window functions are called while they can add their calls to a
\* trace of at most MaxEvents entries.
MaxEvents == 4

---------------------------------------------------------------------------
(* Values.                                                                 *)

NullItem == 0
UIItems == NullItem .. MaxItem

\* enum GncOptionUIType
GncOptionUIType ==
    { "INTERNAL", "BOOLEAN", "STRING", "TEXT", "CURRENCY", "COMMODITY",
      "MULTICHOICE", "DATE", "ACCOUNT_LIST", "ACCOUNT_SEL", "LIST",
      "NUMBER_RANGE", "COLOR", "FONT", "BUDGET", "PIXMAP", "RADIOBUTTON",
      "DATE_FORMAT", "OWNER", "CUSTOMER", "VENDOR", "EMPLOYEE", "INVOICE",
      "TAX_TABLE", "QUERY" }

\* The ui_type arguments the constructors are called with.
UITypeArgs == { "INTERNAL", "BOOLEAN", "STRING" }

\* struct OptionClassifier: the (section, name, key, doc_string) arguments.
OptionClassifier ==
    { [m_section |-> "foo", m_name |-> "bar", m_sort_tag |-> "baz",
       m_doc_string |-> "Phony Option"],
      [m_section |-> "Display", m_name |-> "Amount", m_sort_tag |-> "a1",
       m_doc_string |-> ""] }

\* int64_t arguments.
Int64Args == { -1, 0, 1, 5, 7 }
\* int arguments.
IntArgs == { 0, 5, 7, 10, 15 }
\* The step arguments of the range constructor.
StepArgs == { 1, 5 }
\* QofInstance* arguments.
InstanceArgs == 0 .. MaxInstance
\* std::string arguments.
StringArgs == { "", "a", "b", "c" }
\* time64 arguments.
TimeArgs == 0 .. MaxTime

\* The exceptions of the code.
NoError == "none"
LogicError == "std::logic_error"
InvalidArgument == "std::invalid_argument"
OutOfRange == "std::out_of_range"

\* No cell has been constructed (or the constructor threw).
NoOption == [kind |-> "none"]
NoValue == "void"

---------------------------------------------------------------------------
(* class OptionUIItem.                                                     *)

\* OptionUIItem(ui_type): m_ui_item{nullptr}, m_ui_type{ui_type}
OptionUIItem(ui_type) == [m_ui_item |-> NullItem, m_ui_type |-> ui_type]

get_ui_type(o) == o.m_ui_type

get_ui_item(o) == o.m_ui_item

\* clear_ui_item that throws when there is no item to clear.
clear_ui_item_guarded(o) ==
    IF o.m_ui_item = NullItem
    THEN [obj |-> o, err |-> LogicError]
    ELSE [obj |-> [o EXCEPT !.m_ui_item = NullItem], err |-> NoError]

\* clear_ui_item that makes the option internal as well.
clear_ui_item_resets_type(o) ==
    [obj |-> [o EXCEPT !.m_ui_item = NullItem, !.m_ui_type = "INTERNAL"],
     err |-> NoError]

\* void clear_ui_item() { m_ui_item = nullptr; }
clear_ui_item(o) ==
    [obj |-> [o EXCEPT !.m_ui_item = NullItem], err |-> NoError]

\* set_ui_item with the INTERNAL check left out.
set_ui_item_unguarded(o, ui_item) ==
    [obj |-> [o EXCEPT !.m_ui_item = ui_item], err |-> NoError]

\* void set_ui_item(GncOptionUIItem* ui_item)
set_ui_item(o, ui_item) ==
    IF o.m_ui_type = "INTERNAL"
    THEN [obj |-> o, err |-> LogicError]
    ELSE [obj |-> [o EXCEPT !.m_ui_item = ui_item], err |-> NoError]

\* make_internal with the check for an attached UI item left out.
make_internal_unguarded(o) ==
    [obj |-> [o EXCEPT !.m_ui_type = "INTERNAL"], err |-> NoError]

\* make_internal setting the type before it looks for an attached UI item.
make_internal_sets_first(o) ==
    IF o.m_ui_item # NullItem
    THEN [obj |-> [o EXCEPT !.m_ui_type = "INTERNAL"], err |-> LogicError]
    ELSE [obj |-> [o EXCEPT !.m_ui_type = "INTERNAL"], err |-> NoError]

\* void make_internal()
make_internal(o) ==
    IF o.m_ui_item # NullItem
    THEN [obj |-> o, err |-> LogicError]
    ELSE [obj |-> [o EXCEPT !.m_ui_type = "INTERNAL"], err |-> NoError]

---------------------------------------------------------------------------
(* The typed cells.  Every cell record carries `kind` (the class) and      *)
(* `ValueType` (the template argument; for the two classes that are not    *)
(* templates, the decayed return type of get_value()).                     *)

\* template <typename ValueType> class GncOptionValue: the constructor.
GncOptionValue(c, T, value, ui_type) ==
    [obj |-> [kind |-> "GncOptionValue", ValueType |-> T,
              m_section |-> c.m_section, m_name |-> c.m_name,
              m_sort_tag |-> c.m_sort_tag, m_doc_string |-> c.m_doc_string,
              m_ui_item |-> OptionUIItem(ui_type).m_ui_item,
              m_ui_type |-> OptionUIItem(ui_type).m_ui_type,
              m_value |-> value, m_default_value |-> value],
     err |-> NoError]

\* set_value that detaches the UI item as it stores the value.
GncOptionValue_set_value_detaching(o, new_value) ==
    [obj |-> [o EXCEPT !.m_value = new_value, !.m_ui_item = NullItem],
     err |-> NoError]

\* void set_value(ValueType new_value) { m_value = new_value; }
GncOptionValue_set_value(o, new_value) ==
    [obj |-> [o EXCEPT !.m_value = new_value], err |-> NoError]

\* The validators (std::function<bool(ValueType)>) the cells are built with.
Validators == { "positive", "at_most_five" }

\* m_validator(value): the call of the stored std::function.
m_validator(f, value) ==
    CASE f = "positive" -> value > 0
      [] f = "at_most_five" -> value <= 5

\* bool validate(ValueType value) { return m_validator(value); }
GncOptionValidatedValue_validate(o, value) == m_validator(o.m_validator, value)

\* The validated constructor without its check of the initial value.
GncOptionValidatedValue_unchecked(c, T, value, validator, ui_type) ==
    [obj |-> [kind |-> "GncOptionValidatedValue", ValueType |-> T,
              m_section |-> c.m_section, m_name |-> c.m_name,
              m_sort_tag |-> c.m_sort_tag, m_doc_string |-> c.m_doc_string,
              m_ui_item |-> OptionUIItem(ui_type).m_ui_item,
              m_ui_type |-> OptionUIItem(ui_type).m_ui_type,
              m_value |-> value, m_default_value |-> value,
              m_validator |-> validator],
     err |-> NoError]

\* template <typename ValueType> class GncOptionValidatedValue: the
\* constructor.  It throws when the initial value fails the validator, and
\* then no object exists.
GncOptionValidatedValue(c, T, value, validator, ui_type) ==
    LET o == [kind |-> "GncOptionValidatedValue", ValueType |-> T,
              m_section |-> c.m_section, m_name |-> c.m_name,
              m_sort_tag |-> c.m_sort_tag, m_doc_string |-> c.m_doc_string,
              m_ui_item |-> OptionUIItem(ui_type).m_ui_item,
              m_ui_type |-> OptionUIItem(ui_type).m_ui_type,
              m_value |-> value, m_default_value |-> value,
              m_validator |-> validator]
    IN  IF ~GncOptionValidatedValue_validate(o, value)
        THEN [obj |-> NoOption, err |-> InvalidArgument]
        ELSE [obj |-> o, err |-> NoError]

\* set_value that stores the value before it validates it.
GncOptionValidatedValue_set_value_store_first(o, value) ==
    IF GncOptionValidatedValue_validate(o, value)
    THEN [obj |-> [o EXCEPT !.m_value = value], err |-> NoError]
    ELSE [obj |-> [o EXCEPT !.m_value = value], err |-> InvalidArgument]

\* void GncOptionValidatedValue::set_value(ValueType value)
GncOptionValidatedValue_set_value(o, value) ==
    IF GncOptionValidatedValue_validate(o, value)
    THEN [obj |-> [o EXCEPT !.m_value = value], err |-> NoError]
    ELSE [obj |-> o, err |-> InvalidArgument]

\* The range constructor storing the value as given.
GncOptionRangeValue_unclamped(c, T, value, min, max, step) ==
    [obj |-> [kind |-> "GncOptionRangeValue", ValueType |-> T,
              m_section |-> c.m_section, m_name |-> c.m_name,
              m_sort_tag |-> c.m_sort_tag, m_doc_string |-> c.m_doc_string,
              m_ui_item |-> OptionUIItem("NUMBER_RANGE").m_ui_item,
              m_ui_type |-> OptionUIItem("NUMBER_RANGE").m_ui_type,
              m_value |-> value, m_default_value |-> value,
              m_min |-> min, m_max |-> max, m_step |-> step],
     err |-> NoError]

\* template <typename ValueType> class GncOptionRangeValue: the constructor.
GncOptionRangeValue(c, T, value, min, max, step) ==
    [obj |-> [kind |-> "GncOptionRangeValue", ValueType |-> T,
              m_section |-> c.m_section, m_name |-> c.m_name,
              m_sort_tag |-> c.m_sort_tag, m_doc_string |-> c.m_doc_string,
              m_ui_item |-> OptionUIItem("NUMBER_RANGE").m_ui_item,
              m_ui_type |-> OptionUIItem("NUMBER_RANGE").m_ui_type,
              m_value |-> IF value >= min /\ value <= max THEN value ELSE min,
              m_default_value |->
                  IF value >= min /\ value <= max THEN value ELSE min,
              m_min |-> min, m_max |-> max, m_step |-> step],
     err |-> NoError]

\* bool validate(ValueType value) { return value >= m_min && value <= m_max; }
GncOptionRangeValue_validate(o, value) == value >= o.m_min /\ value <= o.m_max

\* set_value that clamps an out-of-range value to the nearer bound.
GncOptionRangeValue_set_value_clamping(o, value) ==
    IF GncOptionRangeValue_validate(o, value)
    THEN [obj |-> [o EXCEPT !.m_value = value], err |-> NoError]
    ELSE [obj |-> [o EXCEPT !.m_value = IF value < o.m_min THEN o.m_min
                                        ELSE o.m_max],
          err |-> InvalidArgument]

\* void GncOptionRangeValue::set_value(ValueType value)
GncOptionRangeValue_set_value(o, value) ==
    IF GncOptionRangeValue_validate(o, value)
    THEN [obj |-> [o EXCEPT !.m_value = value], err |-> NoError]
    ELSE [obj |-> o, err |-> InvalidArgument]

---------------------------------------------------------------------------
(* class GncOptionMultichoiceValue.  m_choices is the vector of            *)
(* (key, name, description) tuples; the vector's index i is the sequence's *)
(* position i + 1.  m_value and m_default_value are indices (std::size_t). *)

\* std::numeric_limits<std::size_t>::max(): the largest index, here the
\* largest integer of TLC (2^31 - 1) in place of 2^64 - 1.
SizeMax == 2147483647

\* std::size_t arguments: the indices of the longest list, one past them,
\* and the largest index.
IndexArgs == (0 .. MaxChoices + 1) \cup { SizeMax }

\* The entries choice lists are built from.
ChoiceEntries ==
    { <<"a", "Alpha", "">>, <<"b", "Beta", "">>, <<"a", "Again", "second a">> }

\* The choice lists the constructor is called with.
ChoiceArgs == UNION { [1..n -> ChoiceEntries] : n \in 0..MaxChoices }

\* The constructor: m_value{}, m_default_value{}, m_choices{choices}.
GncOptionMultichoiceValue(c, choices, ui_type) ==
    [obj |-> [kind |-> "GncOptionMultichoiceValue", ValueType |-> "std::string",
              m_section |-> c.m_section, m_name |-> c.m_name,
              m_sort_tag |-> c.m_sort_tag, m_doc_string |-> c.m_doc_string,
              m_ui_item |-> OptionUIItem(ui_type).m_ui_item,
              m_ui_type |-> OptionUIItem(ui_type).m_ui_type,
              m_value |-> 0, m_default_value |-> 0,
              m_choices |-> choices],
     err |-> NoError]

\* std::vector::at(index): the element, or std::out_of_range.
at(vec, index) ==
    IF index < Len(vec)
    THEN [val |-> vec[index + 1], err |-> NoError]
    ELSE [val |-> NoValue, err |-> OutOfRange]

\* std::find_if from position i on: the first position whose key is `key`,
\* or end() (Len(vec)).
RECURSIVE find_if(_, _, _)
find_if(vec, key, i) ==
    IF i >= Len(vec) THEN Len(vec)
    ELSE IF vec[i + 1][1] = key THEN i
    ELSE find_if(vec, key, i + 1)

\* std::find_if scanning from the back: the last position whose key is
\* `key`, or end() (Len(vec)).
RECURSIVE find_if_last(_, _, _)
find_if_last(vec, key, i) ==
    IF i >= Len(vec) THEN Len(vec)
    ELSE LET later == find_if_last(vec, key, i + 1)
         IN  IF later # Len(vec) THEN later
             ELSE IF vec[i + 1][1] = key THEN i ELSE Len(vec)

\* find_key answering the last match.
find_key_last_match(o, key) ==
    LET iter == find_if_last(o.m_choices, key, 0)
    IN  IF iter # Len(o.m_choices) THEN iter ELSE SizeMax

\* find_key answering the index after the match.
find_key_off_by_one(o, key) ==
    LET iter == find_if(o.m_choices, key, 0)
    IN  IF iter # Len(o.m_choices) THEN iter + 1 ELSE SizeMax

\* std::size_t find_key(const std::string& key) const noexcept
find_key(o, key) ==
    LET iter == find_if(o.m_choices, key, 0)
    IN  IF iter # Len(o.m_choices) THEN iter ELSE SizeMax

\* const std::string& GncOptionMultichoiceValue::get_value() const
GncOptionMultichoiceValue_get_value(o) ==
    LET e == at(o.m_choices, o.m_value)
    IN  IF e.err # NoError THEN e ELSE [val |-> e.val[1], err |-> NoError]

\* const std::string& GncOptionMultichoiceValue::get_default_value() const
GncOptionMultichoiceValue_get_default_value(o) ==
    LET e == at(o.m_choices, o.m_default_value)
    IN  IF e.err # NoError THEN e ELSE [val |-> e.val[1], err |-> NoError]

\* validate that accepts the first choice only.
GncOptionMultichoiceValue_validate_first_only(o, value) == find_key(o, value) = 0

\* bool validate(const std::string& value) const noexcept
GncOptionMultichoiceValue_validate(o, value) == find_key(o, value) # SizeMax

\* set_value that selects index 0 for a key that is not a choice.
GncOptionMultichoiceValue_set_value_reset(o, value) ==
    LET index == find_key(o, value)
    IN  IF index # SizeMax
        THEN [obj |-> [o EXCEPT !.m_value = index], err |-> NoError]
        ELSE [obj |-> [o EXCEPT !.m_value = 0], err |-> InvalidArgument]

\* void GncOptionMultichoiceValue::set_value(const std::string& value)
GncOptionMultichoiceValue_set_value(o, value) ==
    LET index == find_key(o, value)
    IN  IF index # SizeMax
        THEN [obj |-> [o EXCEPT !.m_value = index], err |-> NoError]
        ELSE [obj |-> o, err |-> InvalidArgument]

\* std::size_t num_permissible_values() const noexcept
num_permissible_values(o) == Len(o.m_choices)

\* permissible_value_index raising for a key that is not a choice.
permissible_value_index_throwing(o, key) ==
    IF find_key(o, key) = SizeMax
    THEN [val |-> NoValue, err |-> OutOfRange]
    ELSE [val |-> find_key(o, key), err |-> NoError]

\* std::size_t permissible_value_index(const std::string& key) const noexcept
permissible_value_index(o, key) == [val |-> find_key(o, key), err |-> NoError]

\* const std::string& permissible_value(std::size_t index) const
permissible_value(o, index) ==
    LET e == at(o.m_choices, index)
    IN  IF e.err # NoError THEN e ELSE [val |-> e.val[1], err |-> NoError]

\* permissible_value_name reading the tuple's first member, the key.
permissible_value_name_as_key(o, index) ==
    LET e == at(o.m_choices, index)
    IN  IF e.err # NoError THEN e ELSE [val |-> e.val[1], err |-> NoError]

\* const std::string& permissible_value_name(std::size_t index) const
permissible_value_name(o, index) ==
    LET e == at(o.m_choices, index)
    IN  IF e.err # NoError THEN e ELSE [val |-> e.val[2], err |-> NoError]

\* const std::string& permissible_value_description(std::size_t index) const
permissible_value_description(o, index) ==
    LET e == at(o.m_choices, index)
    IN  IF e.err # NoError THEN e ELSE [val |-> e.val[3], err |-> NoError]

---------------------------------------------------------------------------
(* class GncOptionDateValue.  GncDateTime() is the clock, `now`.           *)

\* enum class DateType
DateType == { "ABSOLUTE", "STARTING", "ENDING" }

\* enum class RelativeDatePeriod
RelativeDatePeriod ==
    { "TODAY", "THIS_MONTH", "PREV_MONTH", "CURRENT_QUARTER", "PREV_QUARTER",
      "CAL_YEAR", "PREV_YEAR", "ACCOUNTING_PERIOD" }

\* The date constructor storing the epoch in place of the clock's time.
GncOptionDateValue_epoch(c, time) ==
    [obj |-> [kind |-> "GncOptionDateValue", ValueType |-> "time64",
              m_section |-> c.m_section, m_name |-> c.m_name,
              m_sort_tag |-> c.m_sort_tag, m_doc_string |-> c.m_doc_string,
              m_ui_item |-> OptionUIItem("DATE").m_ui_item,
              m_ui_type |-> OptionUIItem("DATE").m_ui_type,
              m_type |-> "ABSOLUTE", m_period |-> "TODAY", m_date |-> 0],
     err |-> NoError]

\* The constructor: absolute, TODAY, the time of construction.
GncOptionDateValue(c, time) ==
    [obj |-> [kind |-> "GncOptionDateValue", ValueType |-> "time64",
              m_section |-> c.m_section, m_name |-> c.m_name,
              m_sort_tag |-> c.m_sort_tag, m_doc_string |-> c.m_doc_string,
              m_ui_item |-> OptionUIItem("DATE").m_ui_item,
              m_ui_type |-> OptionUIItem("DATE").m_ui_type,
              m_type |-> "ABSOLUTE", m_period |-> "TODAY", m_date |-> time],
     err |-> NoError]

\* time64 get_default_value() const { return static_cast<time64>(GncDateTime()); }
GncOptionDateValue_get_default_value(o, time) == [val |-> time, err |-> NoError]

\* set_value(time64) keeping the mode it finds.
GncOptionDateValue_set_value_keep_mode(o, time) ==
    [obj |-> [o EXCEPT !.m_date = time], err |-> NoError]

\* void set_value(time64 time)
GncOptionDateValue_set_value(o, time) ==
    [obj |-> [o EXCEPT !.m_type = "ABSOLUTE", !.m_period = "TODAY",
                       !.m_date = time],
     err |-> NoError]

\* The length of a period, in the clock's units.
PeriodLength(period) ==
    CASE period = "TODAY" -> 1
      [] period \in { "THIS_MONTH", "PREV_MONTH" } -> 2
      [] period \in { "CURRENT_QUARTER", "PREV_QUARTER" } -> 4
      [] OTHER -> 8

\* The first instant of the period, seen from `time`.
PeriodStart(period, time) ==
    LET len == PeriodLength(period)
        this == (time \div len) * len
    IN  IF period \in { "PREV_MONTH", "PREV_QUARTER", "PREV_YEAR" }
        THEN this - len ELSE this

\* get_value answering the stored time in every mode.
GncOptionDateValue_get_value_stored(o, time) ==
    [val |-> o.m_date, err |-> NoError]

\* time64 get_value() const: the stored time when absolute, else the start
\* or the end of the period, seen from the clock.
GncOptionDateValue_get_value(o, time) ==
    [val |-> CASE o.m_type = "ABSOLUTE" -> o.m_date
               [] o.m_type = "STARTING" -> PeriodStart(o.m_period, time)
               [] o.m_type = "ENDING" ->
                      PeriodStart(o.m_period, time) + PeriodLength(o.m_period) - 1,
     err |-> NoError]

\* void set_value(DateSetterValue): the mode and its payload, a time64 when
\* absolute and a RelativeDatePeriod otherwise.
GncOptionDateValue_set_value_setter(o, type, payload) ==
    [obj |-> IF type = "ABSOLUTE"
             THEN [o EXCEPT !.m_type = type, !.m_date = payload]
             ELSE [o EXCEPT !.m_type = type, !.m_period = payload],
     err |-> NoError]

---------------------------------------------------------------------------
(* Reads of a cell, whatever its class.                                    *)

\* get_value() of the cell's class.
get_value(o, time) ==
    CASE o.kind = "GncOptionMultichoiceValue" -> GncOptionMultichoiceValue_get_value(o)
      [] o.kind = "GncOptionDateValue" -> GncOptionDateValue_get_value(o, time)
      [] OTHER -> [val |-> o.m_value, err |-> NoError]

\* get_default_value() of the cell's class.
get_default_value(o, time) ==
    CASE o.kind = "GncOptionMultichoiceValue" ->
             GncOptionMultichoiceValue_get_default_value(o)
      [] o.kind = "GncOptionDateValue" ->
             GncOptionDateValue_get_default_value(o, time)
      [] OTHER -> [val |-> o.m_default_value, err |-> NoError]

\* set_value of the cell's class, called with a value of its value type
\* (for a date cell, overload resolution takes set_value(time64)).
set_value(o, value) ==
    CASE o.kind = "GncOptionValue" -> GncOptionValue_set_value(o, value)
      [] o.kind = "GncOptionValidatedValue" ->
             GncOptionValidatedValue_set_value(o, value)
      [] o.kind = "GncOptionRangeValue" -> GncOptionRangeValue_set_value(o, value)
      [] o.kind = "GncOptionMultichoiceValue" ->
             GncOptionMultichoiceValue_set_value(o, value)
      [] o.kind = "GncOptionDateValue" -> GncOptionDateValue_set_value(o, value)

\* The classes that have a validate member.
ValidatingKinds ==
    { "GncOptionValidatedValue", "GncOptionRangeValue",
      "GncOptionMultichoiceValue" }

\* validate(value) of the cell's class.
validate(o, value) ==
    [val |-> CASE o.kind = "GncOptionValidatedValue" ->
                      GncOptionValidatedValue_validate(o, value)
               [] o.kind = "GncOptionRangeValue" ->
                      GncOptionRangeValue_validate(o, value)
               [] o.kind = "GncOptionMultichoiceValue" ->
                      GncOptionMultichoiceValue_validate(o, value),
     err |-> NoError]

\* using DateSetterValue = std::pair<DateType, int64_t>: the pairs the
\* facade is called with.
DateSetterArgs ==
    { <<"ABSOLUTE", 1>>, <<"STARTING", "THIS_MONTH">> }

\* The values the facade's set_value<T> is called with.
FacadeArgsOf(T) ==
    CASE T = "std::string" -> { "b", "c" }
      [] T = "bool" -> BOOLEAN
      [] T = "int64_t" -> { -1, 1 }
      [] T = "int" -> { 7, 15 }
      [] T = "QofInstance*" -> InstanceArgs
      [] T = "DateSetterValue" -> DateSetterArgs

\* The arguments a parameter of type T is called with.
ArgsOf(T) ==
    CASE T = "std::string" -> StringArgs
      [] T = "bool" -> BOOLEAN
      [] T = "int64_t" -> Int64Args
      [] T = "int" -> IntArgs
      [] T = "QofInstance*" -> InstanceArgs
      [] T = "time64" -> TimeArgs

---------------------------------------------------------------------------
(* class GncOption: the facade over GncOptionVariant.                      *)

\* using GncOptionVariant = std::variant<...>: the alternatives.
GncOptionVariant ==
    { <<"GncOptionValue", "std::string">>, <<"GncOptionValue", "bool">>,
      <<"GncOptionValue", "int64_t">>, <<"GncOptionValue", "QofInstance*">>,
      <<"GncOptionValue", "QofQuery*">>,
      <<"GncOptionValue", "std::vector<GncGUID>">>,
      <<"GncOptionMultichoiceValue", "std::string">>,
      <<"GncOptionRangeValue", "int">>, <<"GncOptionRangeValue", "double">>,
      <<"GncOptionValidatedValue", "QofInstance*">>,
      <<"GncOptionDateValue", "time64">> }

\* GncOption(OptionType option) : m_option{option}: the cell is one of the
\* variant's alternatives.
HeldByGncOption(o) == o.kind # "none" /\ <<o.kind, o.ValueType>> \in GncOptionVariant

\* The template arguments the facade's get_value, get_default_value and
\* set_value are called with.
FacadeTypes ==
    { "std::string", "bool", "int64_t", "int", "QofInstance*", "DateSetterValue" }

\* std::decay_t of a type, typedefs resolved: time64 is gint64, the type
\* that int64_t names.
Decay(T) == IF T = "time64" THEN "int64_t" ELSE T

\* std::is_same_v<std::decay_t<decltype(option.get_value())>,
\*                std::decay_t<ValueType>>
SameValueType(o, T) == Decay(o.ValueType) = Decay(T)

\* ValueType {}: the value-initialised object of the type.
TypeDefault(T) ==
    CASE T = "std::string" -> ""
      [] T = "bool" -> FALSE
      [] T \in { "int64_t", "int", "time64" } -> 0
      [] T = "QofInstance*" -> 0
      [] T = "DateSetterValue" -> <<"ABSOLUTE", 0>>

\* GncOption::get_value answering get_default_value().
GncOption_get_value_default(o, T, time) ==
    IF SameValueType(o, T) THEN get_default_value(o, time)
    ELSE [val |-> TypeDefault(T), err |-> NoError]

\* template <typename ValueType> ValueType GncOption::get_value() const
GncOption_get_value(o, T, time) ==
    IF SameValueType(o, T) THEN get_value(o, time)
    ELSE [val |-> TypeDefault(T), err |-> NoError]

\* template <typename ValueType> ValueType GncOption::get_default_value() const
GncOption_get_default_value(o, T, time) ==
    IF SameValueType(o, T) THEN get_default_value(o, time)
    ELSE [val |-> TypeDefault(T), err |-> NoError]

\* GncOption::set_value throwing when the types differ.
GncOption_set_value_strict(o, T, value) ==
    IF SameValueType(o, T) THEN set_value(o, value)
    ELSE [obj |-> o, err |-> InvalidArgument]

\* GncOption::set_value catching what the cell's set_value throws.
GncOption_set_value_swallowing(o, T, value) ==
    IF SameValueType(o, T)
    THEN [obj |-> set_value(o, value).obj, err |-> NoError]
    ELSE [obj |-> o, err |-> NoError]

\* set_value that, on a type mismatch, replaces the cell by a plain cell of
\* the argument's type holding the argument.
GncOption_set_value_emplacing(o, T, value) ==
    IF SameValueType(o, T) THEN set_value(o, value)
    ELSE [obj |-> [kind |-> "GncOptionValue", ValueType |-> T,
                   m_section |-> o.m_section, m_name |-> o.m_name,
                   m_sort_tag |-> o.m_sort_tag,
                   m_doc_string |-> o.m_doc_string,
                   m_ui_item |-> o.m_ui_item, m_ui_type |-> o.m_ui_type,
                   m_value |-> value, m_default_value |-> value],
          err |-> NoError]

\* template <typename ValueType> void GncOption::set_value(ValueType value)
GncOption_set_value(o, T, value) ==
    IF SameValueType(o, T) THEN set_value(o, value)
    ELSE [obj |-> o, err |-> NoError]

\* GncOption::set_ui_item reaching only the cells built with a ui_type
\* argument.
GncOption_set_ui_item_partial(o, ui_elem) ==
    IF o.kind \in { "GncOptionRangeValue", "GncOptionDateValue" }
    THEN [obj |-> [o EXCEPT !.m_ui_item = ui_elem], err |-> NoError]
    ELSE set_ui_item(o, ui_elem)

\* void GncOption::set_ui_item(GncOptionUIItem* ui_elem): std::visit calls
\* the active cell's set_ui_item.
GncOption_set_ui_item(o, ui_elem) == set_ui_item(o, ui_elem)

\* void GncOption::make_internal(): std::visit calls the active cell's
\* make_internal.
GncOption_make_internal(o) == make_internal(o)

\* const std::string& GncOption::get_section() const
GncOption_get_section(o) == [val |-> o.m_section, err |-> NoError]

\* const std::string& GncOption::get_name() const
GncOption_get_name(o) == [val |-> o.m_name, err |-> NoError]

\* get_key answering the name.
GncOption_get_key_name(o) == [val |-> o.m_name, err |-> NoError]

\* const std::string& GncOption::get_key() const: the sort tag.
GncOption_get_key(o) == [val |-> o.m_sort_tag, err |-> NoError]

\* const std::string& GncOption::get_docstring() const
GncOption_get_docstring(o) == [val |-> o.m_doc_string, err |-> NoError]

---------------------------------------------------------------------------
(* The state machine.                                                      *)

\* A call that may change the object: it ends with the object `res.obj`,
\* having thrown `res.err` or nothing.
Call(name, args, res) ==
    /\ op' = [name |-> name, args |-> args]
    /\ option' = res.obj
    /\ err' = res.err
    /\ ret' = NoValue
    /\ UNCHANGED now
    /\ UNCHANGED pluginVars

\* A call of a const member: it returns `res.val` or throws `res.err`.
Read(name, args, res) ==
    /\ op' = [name |-> name, args |-> args]
    /\ ret' = res.val
    /\ err' = res.err
    /\ UNCHANGED <<option, now>>
    /\ UNCHANGED pluginVars

Constructed == option.kind # "none"

\* No cell is constructed yet.
InitOption ==
    /\ option = NoOption
    /\ op = [name |-> "none", args |-> <<>>]
    /\ err = NoError
    /\ ret = NoValue
    /\ now = 0

\* The program of the option cells loads no plugin.
Init ==
    /\ InitOption
    /\ klass = [actions_name |-> FALSE, add_to_window |-> FALSE,
                remove_from_window |-> FALSE]
    /\ window = [just_plugin_prefs |-> FALSE, merged |-> FALSE]
    /\ pc = <<>>
    /\ trace = <<>>

\* The clock advances.
Tick ==
    /\ now < MaxTime
    /\ now' = now + 1
    /\ op' = [name |-> "tick", args |-> <<>>]
    /\ err' = NoError
    /\ ret' = NoValue
    /\ UNCHANGED option
    /\ UNCHANGED pluginVars

NewValue ==
    /\ ~Constructed
    /\ \E c \in OptionClassifier, ui_type \in UITypeArgs,
          T \in { "std::string", "bool", "int64_t", "QofInstance*" } :
          \E value \in ArgsOf(T) :
             Call("GncOptionValue", <<c, T, value, ui_type>>,
                  GncOptionValue(c, T, value, ui_type))

NewValidatedValue ==
    /\ ~Constructed
    /\ \E c \in OptionClassifier, ui_type \in UITypeArgs,
          T \in { "int64_t", "QofInstance*" }, validator \in Validators :
          \E value \in ArgsOf(T) :
             Call("GncOptionValidatedValue", <<c, T, value, validator, ui_type>>,
                  GncOptionValidatedValue(c, T, value, validator, ui_type))

NewRangeValue ==
    /\ ~Constructed
    /\ \E c \in OptionClassifier, value \in IntArgs, min \in IntArgs,
          max \in IntArgs, step \in StepArgs :
          Call("GncOptionRangeValue", <<c, "int", value, min, max, step>>,
               GncOptionRangeValue(c, "int", value, min, max, step))

NewMultichoiceValue ==
    /\ ~Constructed
    /\ \E c \in OptionClassifier, choices \in ChoiceArgs,
          ui_type \in { "MULTICHOICE", "INTERNAL" } :
          Call("GncOptionMultichoiceValue", <<c, choices, ui_type>>,
               GncOptionMultichoiceValue(c, choices, ui_type))

NewDateValue ==
    /\ ~Constructed
    /\ \E c \in OptionClassifier :
          Call("GncOptionDateValue", <<c>>, GncOptionDateValue(c, now))

ClearUIItem ==
    /\ Constructed
    /\ Call("OptionUIItem::clear_ui_item", <<>>, clear_ui_item(option))

SetUIItem ==
    /\ Constructed
    /\ \E ui_item \in UIItems :
          Call("OptionUIItem::set_ui_item", <<ui_item>>,
               set_ui_item(option, ui_item))

MakeInternal ==
    /\ Constructed
    /\ Call("OptionUIItem::make_internal", <<>>, make_internal(option))

FacadeSetUIItem ==
    /\ HeldByGncOption(option)
    /\ \E ui_elem \in UIItems :
          Call("GncOption::set_ui_item", <<ui_elem>>,
               GncOption_set_ui_item(option, ui_elem))

FacadeMakeInternal ==
    /\ HeldByGncOption(option)
    /\ Call("GncOption::make_internal", <<>>, GncOption_make_internal(option))

ValueSetValue ==
    /\ option.kind = "GncOptionValue"
    /\ \E new_value \in ArgsOf(option.ValueType) :
          Call("GncOptionValue::set_value", <<new_value>>,
               GncOptionValue_set_value(option, new_value))

ValidatedSetValue ==
    /\ option.kind = "GncOptionValidatedValue"
    /\ \E value \in ArgsOf(option.ValueType) :
          Call("GncOptionValidatedValue::set_value", <<value>>,
               GncOptionValidatedValue_set_value(option, value))

RangeSetValue ==
    /\ option.kind = "GncOptionRangeValue"
    /\ \E value \in ArgsOf(option.ValueType) :
          Call("GncOptionRangeValue::set_value", <<value>>,
               GncOptionRangeValue_set_value(option, value))

MultichoiceSetValue ==
    /\ option.kind = "GncOptionMultichoiceValue"
    /\ \E value \in StringArgs :
          Call("GncOptionMultichoiceValue::set_value", <<value>>,
               GncOptionMultichoiceValue_set_value(option, value))

DateSetValue ==
    /\ option.kind = "GncOptionDateValue"
    /\ \E time \in TimeArgs :
          Call("GncOptionDateValue::set_value", <<time>>,
               GncOptionDateValue_set_value(option, time))

DateSetValueSetter ==
    /\ option.kind = "GncOptionDateValue"
    /\ \E type \in DateType :
          \E payload \in IF type = "ABSOLUTE" THEN TimeArgs
                         ELSE RelativeDatePeriod :
             Call("GncOptionDateValue::set_value(DateSetterValue)",
                  <<type, payload>>,
                  GncOptionDateValue_set_value_setter(option, type, payload))

GetValue ==
    /\ Constructed
    /\ Read("get_value", <<>>, get_value(option, now))

GetDefaultValue ==
    /\ Constructed
    /\ Read("get_default_value", <<>>, get_default_value(option, now))

PermissibleValueIndex ==
    /\ option.kind = "GncOptionMultichoiceValue"
    /\ \E key \in StringArgs :
          Read("GncOptionMultichoiceValue::permissible_value_index", <<key>>,
               permissible_value_index(option, key))

PermissibleValue ==
    /\ option.kind = "GncOptionMultichoiceValue"
    /\ \E index \in IndexArgs :
          Read("GncOptionMultichoiceValue::permissible_value", <<index>>,
               permissible_value(option, index))

PermissibleValueName ==
    /\ option.kind = "GncOptionMultichoiceValue"
    /\ \E index \in IndexArgs :
          Read("GncOptionMultichoiceValue::permissible_value_name", <<index>>,
               permissible_value_name(option, index))

PermissibleValueDescription ==
    /\ option.kind = "GncOptionMultichoiceValue"
    /\ \E index \in IndexArgs :
          Read("GncOptionMultichoiceValue::permissible_value_description",
               <<index>>, permissible_value_description(option, index))

Validate ==
    /\ option.kind \in ValidatingKinds
    /\ \E value \in ArgsOf(option.ValueType) :
          Read("validate", <<value>>, validate(option, value))

FacadeGetValue ==
    /\ HeldByGncOption(option)
    /\ \E T \in FacadeTypes :
          Read("GncOption::get_value", <<T>>, GncOption_get_value(option, T, now))

FacadeGetDefaultValue ==
    /\ HeldByGncOption(option)
    /\ \E T \in FacadeTypes :
          Read("GncOption::get_default_value", <<T>>,
               GncOption_get_default_value(option, T, now))

FacadeSetValue ==
    /\ HeldByGncOption(option)
    /\ \E T \in FacadeTypes :
          \E value \in FacadeArgsOf(T) :
             Call("GncOption::set_value", <<T, value>>,
                  GncOption_set_value(option, T, value))

FacadeGetSection ==
    /\ HeldByGncOption(option)
    /\ Read("GncOption::get_section", <<>>, GncOption_get_section(option))

FacadeGetName ==
    /\ HeldByGncOption(option)
    /\ Read("GncOption::get_name", <<>>, GncOption_get_name(option))

FacadeGetKey ==
    /\ HeldByGncOption(option)
    /\ Read("GncOption::get_key", <<>>, GncOption_get_key(option))

FacadeGetDocstring ==
    /\ HeldByGncOption(option)
    /\ Read("GncOption::get_docstring", <<>>, GncOption_get_docstring(option))

Next ==
    \/ Tick
    \/ NewValue
    \/ NewValidatedValue
    \/ NewRangeValue
    \/ NewMultichoiceValue
    \/ NewDateValue
    \/ ClearUIItem
    \/ SetUIItem
    \/ MakeInternal
    \/ FacadeSetUIItem
    \/ FacadeMakeInternal
    \/ ValueSetValue
    \/ ValidatedSetValue
    \/ RangeSetValue
    \/ MultichoiceSetValue
    \/ DateSetValue
    \/ DateSetValueSetter
    \/ GetValue
    \/ GetDefaultValue
    \/ PermissibleValueIndex
    \/ PermissibleValue
    \/ PermissibleValueName
    \/ PermissibleValueDescription
    \/ Validate

Spec == Init /\ [][Next]_vars

---------------------------------------------------------------------------
(* The program that reaches the cell through the facade only.              *)

\* GncOption(OptionType option) : m_option{option}: a cell of one of the
\* variant's alternatives is constructed and handed to the facade.
NewGncOption ==
    /\ \/ NewValue
       \/ NewValidatedValue
       \/ NewRangeValue
       \/ NewMultichoiceValue
       \/ NewDateValue
    /\ HeldByGncOption(option')

NextFacade ==
    \/ Tick
    \/ NewGncOption
    \/ FacadeSetUIItem
    \/ FacadeMakeInternal
    \/ FacadeGetValue
    \/ FacadeGetDefaultValue
    \/ FacadeSetValue
    \/ FacadeGetSection
    \/ FacadeGetName
    \/ FacadeGetKey
    \/ FacadeGetDocstring

SpecFacade == Init /\ [][NextFacade]_vars

---------------------------------------------------------------------------
(* The value operations and the UI operations of a cell, called on the     *)
(* cell and through the facade, without the reads and the clock.           *)

NextBinding ==
    \/ NewValue
    \/ NewValidatedValue
    \/ NewRangeValue
    \/ NewMultichoiceValue
    \/ NewDateValue
    \/ ClearUIItem
    \/ SetUIItem
    \/ MakeInternal
    \/ FacadeSetUIItem
    \/ FacadeMakeInternal
    \/ ValueSetValue
    \/ ValidatedSetValue
    \/ RangeSetValue
    \/ MultichoiceSetValue
    \/ DateSetValue
    \/ DateSetValueSetter
    \/ FacadeSetValue

SpecBinding == Init /\ [][NextBinding]_vars

---------------------------------------------------------------------------
(* gnc-plugin.c: a plugin is added to and removed from a window.           *)
(* `klass` tells which members of the GncPluginClass are not NULL;         *)
(* `window.merged` tells whether the class's actions are merged into the   *)
(* window, that is, whether gnc_main_window_merge_actions has been called  *)
(* and gnc_main_window_unmerge_actions has not been called since.          *)

\* GncPluginClass: actions_name, add_to_window and remove_from_window are
\* each set or NULL.
GncPluginClass ==
    [actions_name : BOOLEAN, add_to_window : BOOLEAN,
     remove_from_window : BOOLEAN]

\* GncMainWindow, with no actions merged yet.
GncMainWindow == [just_plugin_prefs : BOOLEAN, merged : { FALSE }]

\* gnc_plugin_add_to_window calling the plugin's function before it merges
\* the actions.
gnc_plugin_add_to_window_hook_first(k, w) ==
    (IF k.add_to_window THEN <<"add_to_window">> ELSE <<>>)
    \o (IF k.actions_name THEN <<"gnc_main_window_merge_actions">> ELSE <<>>)

\* void gnc_plugin_add_to_window (plugin, window, type): the calls it makes
\* for a plugin of class k, in order.
gnc_plugin_add_to_window(k, w) ==
    (IF k.actions_name THEN <<"gnc_main_window_merge_actions">> ELSE <<>>)
    \o (IF k.add_to_window THEN <<"add_to_window">> ELSE <<>>)

\* void gnc_plugin_remove_from_window (plugin, window, type): the calls it
\* makes, in order.
gnc_plugin_remove_from_window(k, w) ==
    (IF k.remove_from_window THEN <<"remove_from_window">> ELSE <<>>)
    \o (IF k.actions_name /\ ~w.just_plugin_prefs
        THEN <<"gnc_main_window_unmerge_actions">> ELSE <<>>)

\* A call as the trace records it, with the window as the callee finds it.
Event(call) == [call |-> call, merged |-> window.merged]

\* One plugin class and one window, nothing merged; no option cell.
InitPlugin ==
    /\ InitOption
    /\ klass \in GncPluginClass
    /\ window \in GncMainWindow
    /\ pc = <<>>
    /\ trace = <<>>

\* gnc_plugin_add_to_window is entered: g_return_if_fail (GNC_IS_PLUGIN
\* (plugin)) returns at once for an object that is not a plugin.
AddToWindow ==
    /\ pc = <<>>
    /\ Len(trace) + 2 <= MaxEvents
    /\ \E is_plugin \in BOOLEAN :
          IF is_plugin
          THEN pc' = gnc_plugin_add_to_window(klass, window) /\ UNCHANGED trace
          ELSE pc' = <<>> /\ trace' = Append(trace, Event("g_return_if_fail"))
    /\ UNCHANGED <<klass, window>>
    /\ UNCHANGED optionVars

\* gnc_plugin_remove_from_window is entered.
RemoveFromWindow ==
    /\ pc = <<>>
    /\ Len(trace) + 2 <= MaxEvents
    /\ \E is_plugin \in BOOLEAN :
          IF is_plugin
          THEN /\ pc' = gnc_plugin_remove_from_window(klass, window)
               /\ UNCHANGED trace
          ELSE pc' = <<>> /\ trace' = Append(trace, Event("g_return_if_fail"))
    /\ UNCHANGED <<klass, window>>
    /\ UNCHANGED optionVars

\* gnc_main_window_merge_actions (window, klass->actions_name, ...)
MergeActions ==
    /\ pc # <<>>
    /\ Head(pc) = "gnc_main_window_merge_actions"
    /\ window' = [window EXCEPT !.merged = TRUE]
    /\ trace' = Append(trace, Event(Head(pc)))
    /\ pc' = Tail(pc)
    /\ UNCHANGED klass
    /\ UNCHANGED optionVars

\* gnc_main_window_unmerge_actions (window, klass->actions_name)
UnmergeActions ==
    /\ pc # <<>>
    /\ Head(pc) = "gnc_main_window_unmerge_actions"
    /\ window' = [window EXCEPT !.merged = FALSE]
    /\ trace' = Append(trace, Event(Head(pc)))
    /\ pc' = Tail(pc)
    /\ UNCHANGED klass
    /\ UNCHANGED optionVars

\* GNC_PLUGIN_GET_CLASS (plugin)->add_to_window (plugin, window, type) or
\* ->remove_from_window (plugin, window, type): the plugin's own function
\* runs.
PluginFunction ==
    /\ pc # <<>>
    /\ Head(pc) \in { "add_to_window", "remove_from_window" }
    /\ trace' = Append(trace, Event(Head(pc)))
    /\ pc' = Tail(pc)
    /\ UNCHANGED <<klass, window>>
    /\ UNCHANGED optionVars

NextPlugin ==
    \/ AddToWindow
    \/ RemoveFromWindow
    \/ MergeActions
    \/ UnmergeActions
    \/ PluginFunction

SpecPlugin == InitPlugin /\ [][NextPlugin]_vars

---------------------------------------------------------------------------
(* The claims.                                                             *)

\* C1, as stated: in every reachable state of a cell, the UI type is
\* INTERNAL if and only if no UI item is attached.
C1_InternalIffNoUIItem ==
    Constructed =>
        ((get_ui_type(option) = "INTERNAL") <=> (get_ui_item(option) = NullItem))

\* C1, amended: in every reachable state of a cell, a UI type of INTERNAL
\* implies that no UI item is attached (a cell whose type is not INTERNAL
\* may have no UI item: every cell is constructed without one, and
\* clear_ui_item removes it).
C1_InternalHasNoUIItem ==
    Constructed =>
        (get_ui_type(option) = "INTERNAL" => get_ui_item(option) = NullItem)

\* C1: an INTERNAL cell has just refused a UI item.
C1_Witness ==
    /\ Constructed
    /\ get_ui_type(option) = "INTERNAL"
    /\ op.name = "OptionUIItem::set_ui_item"
    /\ op.args[1] # NullItem

\* C2: set_ui_item(h) on an INTERNAL cell throws std::logic_error and
\* leaves the whole cell (UI item, UI type, value) as it was; on any other
\* cell it succeeds and get_ui_item() is h.
C2_SetUIItem ==
    [][op'.name = "OptionUIItem::set_ui_item" =>
          IF get_ui_type(option) = "INTERNAL"
          THEN err' = LogicError /\ option' = option
          ELSE err' = NoError /\ get_ui_item(option') = op'.args[1]]_vars

\* C2: set_ui_item(h), h not null, has just failed on an INTERNAL cell.
C2_Witness ==
    /\ op.name = "OptionUIItem::set_ui_item"
    /\ op.args[1] # NullItem
    /\ err = LogicError
    /\ get_ui_type(option) = "INTERNAL"
    /\ get_ui_item(option) = NullItem

\* C3: make_internal() throws std::logic_error when a UI item is attached
\* and leaves the UI type and the UI item as they were; with no UI item
\* it succeeds and the UI type is INTERNAL, whatever it was.
C3_MakeInternal ==
    [][op'.name = "OptionUIItem::make_internal" =>
          IF get_ui_item(option) # NullItem
          THEN /\ err' = LogicError
               /\ get_ui_type(option') = get_ui_type(option)
               /\ get_ui_item(option') = get_ui_item(option)
          ELSE /\ err' = NoError
               /\ get_ui_type(option') = "INTERNAL"
               /\ get_ui_item(option') = NullItem]_vars

\* C3: make_internal() has just failed on a cell with a UI item.
C3_Witness ==
    /\ op.name = "OptionUIItem::make_internal"
    /\ err = LogicError
    /\ get_ui_item(option) # NullItem
    /\ get_ui_type(option) # "INTERNAL"

\* C4: through the facade, for the cell of any class, a set_ui_item(h)
\* that follows a successful make_internal() throws std::logic_error, and
\* the UI item stays null.
C4_MakeInternalThenSetUIItem ==
    [][(/\ op.name = "GncOption::make_internal"
        /\ err = NoError
        /\ op'.name = "GncOption::set_ui_item") =>
          (err' = LogicError /\ get_ui_item(option') = NullItem)]_vars

\* C4: the facade's set_ui_item(h) has just failed on a date cell, which
\* is constructed with the type DATE and, reached through the facade only,
\* is INTERNAL only by a successful GncOption::make_internal.
C4_Witness ==
    /\ op.name = "GncOption::set_ui_item"
    /\ op.args[1] # NullItem
    /\ err = LogicError
    /\ option.kind = "GncOptionDateValue"
    /\ get_ui_type(option) = "INTERNAL"

\* C5: the range constructor never throws, and the value and the default
\* it stores are both v when min <= v <= max and both min otherwise.
C5_RangeConstruction ==
    op.name = "GncOptionRangeValue" =>
        LET v == op.args[3]
            min == op.args[4]
            max == op.args[5]
            stored == IF min <= v /\ v <= max THEN v ELSE min
        IN  /\ err = NoError
            /\ Constructed
            /\ get_value(option, now).val = stored
            /\ get_default_value(option, now).val = stored

\* C5: a range cell has just been constructed with v above max.
C5_Witness ==
    /\ op.name = "GncOptionRangeValue"
    /\ op.args[4] <= op.args[5]
    /\ op.args[3] > op.args[5]
    /\ option.m_value = op.args[4]
    /\ option.m_default_value = op.args[4]

\* C6: the range cell's set_value(v) with v outside [min, max] throws
\* std::invalid_argument and leaves the cell as it was (no clamping); with
\* v inside it succeeds and get_value() is v.
C6_RangeSetValue ==
    [][op'.name = "GncOptionRangeValue::set_value" =>
          LET v == op'.args[1]
          IN  IF v < option.m_min \/ v > option.m_max
              THEN err' = InvalidArgument /\ option' = option
              ELSE err' = NoError /\ get_value(option', now') =
                                       [val |-> v, err |-> NoError]]_vars

\* C6: the cell built with (5, 0, 10, 1) has just refused set_value(15)
\* and still holds 5.
C6_Witness ==
    /\ op.name = "GncOptionRangeValue::set_value"
    /\ op.args = <<15>>
    /\ err = InvalidArgument
    /\ option.m_min = 0 /\ option.m_max = 10 /\ option.m_step = 1
    /\ option.m_default_value = 5
    /\ get_value(option, now).val = 5

\* C7: the value a validated cell stores always satisfies its validator,
\* and a set_value(v) the validator refuses throws and leaves the stored
\* value as it was before the call.
C7_ValidatedValue ==
    /\ [](option.kind = "GncOptionValidatedValue" =>
             m_validator(option.m_validator, option.m_value))
    /\ [][(/\ op'.name = "GncOptionValidatedValue::set_value"
           /\ ~m_validator(option.m_validator, op'.args[1])) =>
             (err' = InvalidArgument /\ option'.m_value = option.m_value)]_vars

\* C7: a validated cell has just refused a value.
C7_Witness ==
    /\ op.name = "GncOptionValidatedValue::set_value"
    /\ err = InvalidArgument
    /\ ~m_validator(option.m_validator, op.args[1])
    /\ option.m_value # op.args[1]

\* C8: the validated constructor throws std::invalid_argument and yields
\* no cell when the initial value fails the validator; otherwise it
\* succeeds with value = default = the initial value.
C8_ValidatedConstruction ==
    op.name = "GncOptionValidatedValue" =>
        LET value == op.args[3]
            validator == op.args[4]
        IN  IF m_validator(validator, value)
            THEN /\ err = NoError
                 /\ Constructed
                 /\ get_value(option, now).val = value
                 /\ get_default_value(option, now).val = value
            ELSE err = InvalidArgument /\ ~Constructed

\* C8: construction with the validator x > 0 and the value -1 has just
\* failed.
C8_Witness ==
    /\ op.name = "GncOptionValidatedValue"
    /\ op.args[3] = -1
    /\ op.args[4] = "positive"
    /\ err = InvalidArgument
    /\ ~Constructed

\* Some entry of the cell's choice list has the key `key`.
KeyPresent(o, key) == \E i \in 1..Len(o.m_choices) : o.m_choices[i][1] = key

\* C9: for a key that is not in the choice list, permissible_value_index
\* returns the sentinel without throwing, and set_value throws
\* std::invalid_argument and leaves the selected index, and with it
\* get_value(), as they were.
C9_MultichoiceUnknownKey ==
    /\ [][(/\ op'.name = "GncOptionMultichoiceValue::permissible_value_index"
           /\ ~KeyPresent(option, op'.args[1])) =>
             (ret' = SizeMax /\ err' = NoError /\ option' = option)]_vars
    /\ [][(/\ op'.name = "GncOptionMultichoiceValue::set_value"
           /\ ~KeyPresent(option, op'.args[1])) =>
             /\ err' = InvalidArgument
             /\ option'.m_value = option.m_value
             /\ get_value(option', now') = get_value(option, now)]_vars

\* C9: the cell with the choices a and b, b selected, has just refused
\* set_value("c").
C9_Witness ==
    /\ op.name = "GncOptionMultichoiceValue::set_value"
    /\ op.args = <<"c">>
    /\ err = InvalidArgument
    /\ option.m_choices = << <<"a", "Alpha", "">>, <<"b", "Beta", "">> >>
    /\ option.m_value = 1
    /\ get_value(option, now).val = "b"

\* The set_value members that take a value of the cell's value type.
SetValueNames ==
    { "GncOptionValue::set_value", "GncOptionValidatedValue::set_value",
      "GncOptionRangeValue::set_value", "GncOptionMultichoiceValue::set_value",
      "GncOptionDateValue::set_value" }

\* C10: for a cell of any class, right after a set_value(x) that did not
\* throw, get_value() returns x; for a multichoice cell it is the key,
\* though the cell stores an index.
C10_RoundTrip ==
    (op.name \in SetValueNames /\ err = NoError) =>
        get_value(option, now) = [val |-> op.args[1], err |-> NoError]

\* C10: a multichoice cell has just accepted the key b and stores its
\* index, 1.
C10_Witness ==
    /\ op.name = "GncOptionMultichoiceValue::set_value"
    /\ op.args = <<"b">>
    /\ err = NoError
    /\ option.m_value = 1
    /\ get_value(option, now).val = "b"

\* The smallest index whose entry has the key `key` (some entry has it).
FirstIndex(o, key) ==
    CHOOSE i \in 0..(Len(o.m_choices) - 1) :
        /\ o.m_choices[i + 1][1] = key
        /\ \A j \in 0..(i - 1) : o.m_choices[j + 1][1] # key

\* C11: for a key the choice list holds, once or several times,
\* permissible_value_index returns the smallest index with that key and
\* set_value selects that index; neither throws.
C11_FirstMatch ==
    /\ [][(/\ op'.name = "GncOptionMultichoiceValue::permissible_value_index"
           /\ KeyPresent(option, op'.args[1])) =>
             (err' = NoError /\ ret' = FirstIndex(option, op'.args[1]))]_vars
    /\ [][(/\ op'.name = "GncOptionMultichoiceValue::set_value"
           /\ KeyPresent(option, op'.args[1])) =>
             /\ err' = NoError
             /\ option'.m_value = FirstIndex(option, op'.args[1])]_vars

\* C11: permissible_value_index("a") has just answered 0 on a list whose
\* two entries both have the key a.
C11_Witness ==
    /\ op.name = "GncOptionMultichoiceValue::permissible_value_index"
    /\ op.args = <<"a">>
    /\ err = NoError
    /\ ret = 0
    /\ Len(option.m_choices) = 2
    /\ option.m_choices[1][1] = "a"
    /\ option.m_choices[2][1] = "a"
    /\ option.m_choices[1] # option.m_choices[2]

\* The position in a choice tuple that each index accessor reads.
AccessorMember ==
    [n \in { "GncOptionMultichoiceValue::permissible_value",
             "GncOptionMultichoiceValue::permissible_value_name",
             "GncOptionMultichoiceValue::permissible_value_description" } |->
        CASE n = "GncOptionMultichoiceValue::permissible_value" -> 1
          [] n = "GncOptionMultichoiceValue::permissible_value_name" -> 2
          [] OTHER -> 3]

\* C12: permissible_value(i), permissible_value_name(i) and
\* permissible_value_description(i) throw std::out_of_range exactly when
\* i >= num_permissible_values(), otherwise return the key, the name and
\* the description of entry i; they leave the cell as it was.
C12_IndexAccessors ==
    [][op'.name \in DOMAIN AccessorMember =>
          LET i == op'.args[1]
          IN  /\ option' = option
              /\ (err' = OutOfRange) <=> (i >= num_permissible_values(option))
              /\ err' \in { NoError, OutOfRange }
              /\ err' = NoError =>
                     ret' = option.m_choices[i + 1][AccessorMember[op'.name]]]_vars

\* C12: permissible_value_name(1) has just returned the name of the second
\* of two entries, which differs from its key.
C12_Witness ==
    /\ op.name = "GncOptionMultichoiceValue::permissible_value_name"
    /\ op.args = <<1>>
    /\ err = NoError
    /\ Len(option.m_choices) = 2
    /\ ret = option.m_choices[2][2]
    /\ ret # option.m_choices[2][1]

\* C12: permissible_value(2) has just thrown on a list of two entries.
C12_WitnessOutOfRange ==
    /\ op.name = "GncOptionMultichoiceValue::permissible_value"
    /\ op.args = <<2>>
    /\ err = OutOfRange
    /\ num_permissible_values(option) = 2

\* C13, as stated: get_value() and get_default_value() never throw, for a
\* cell of any class in any reachable state, and leave the cell as it was.
C13_ReadsNeverFail ==
    [][op'.name \in { "get_value", "get_default_value" } =>
          (err' = NoError /\ option' = option)]_vars

\* C14, as stated: whatever happens to a cell (calls that succeed or
\* throw, the clock advancing), get_default_value() goes on returning what
\* it returned right after construction.
C14_DefaultFixed ==
    [][(Constructed /\ Constructed') =>
          get_default_value(option', now') = get_default_value(option, now)]_vars

\* T names the cell's value type (time64 and int64_t name one type).
TypeMatches(o, T) ==
    \/ T = o.ValueType
    \/ { T, o.ValueType } \subseteq { "int64_t", "time64" }

\* C15: the facade's get_value<T>() returns what the active cell's
\* get_value() returns when T is the cell's value type, and the
\* value-initialised T, without throwing, when it is not; it changes
\* nothing.  The same holds of get_default_value<T>().
C15_FacadeGetValue ==
    [][op'.name \in { "GncOption::get_value", "GncOption::get_default_value" } =>
          LET T == op'.args[1]
              cell == IF op'.name = "GncOption::get_value"
                      THEN get_value(option, now)
                      ELSE get_default_value(option, now)
          IN  /\ option' = option
              /\ IF TypeMatches(option, T)
                 THEN err' = cell.err /\ ret' = cell.val
                 ELSE err' = NoError /\ ret' = TypeDefault(T)]_vars

\* C15: get_value<std::string>() has just returned the empty string on a
\* range cell.
C15_Witness ==
    /\ op.name = "GncOption::get_value"
    /\ op.args = <<"std::string">>
    /\ option.kind = "GncOptionRangeValue"
    /\ option.m_value # 0
    /\ err = NoError
    /\ ret = ""

\* C16: the facade's set_value<T>(x) changes nothing and throws nothing
\* when T is not the active cell's value type; when it is, it does what
\* the cell's own set_value(x) does, validation included.
C16_FacadeSetValue ==
    [][op'.name = "GncOption::set_value" =>
          LET T == op'.args[1]
              x == op'.args[2]
          IN  IF TypeMatches(option, T)
              THEN [obj |-> option', err |-> err'] = set_value(option, x)
              ELSE option' = option /\ err' = NoError]_vars

\* C16: set_value<int>(7) has just left a plain int64_t cell, which does
\* not hold 7, as it was.
C16_Witness ==
    /\ op.name = "GncOption::set_value"
    /\ op.args = <<"int", 7>>
    /\ option.kind = "GncOptionValue"
    /\ option.ValueType = "int64_t"
    /\ option.m_value # 7
    /\ err = NoError

\* The validation of the cell's class refuses the value x.
Rejects(o, x) ==
    CASE o.kind = "GncOptionRangeValue" -> x < o.m_min \/ x > o.m_max
      [] o.kind = "GncOptionValidatedValue" -> ~m_validator(o.m_validator, x)
      [] o.kind = "GncOptionMultichoiceValue" -> ~KeyPresent(o, x)
      [] OTHER -> FALSE

\* C17: a set_value through the facade that the active cell's validation
\* refuses throws to the caller and leaves the cell, and with it the value
\* the facade returns, exactly as it was; a facade set_value that throws
\* never changes anything.
C17_FacadeSetValueRejected ==
    [][op'.name = "GncOption::set_value" =>
          /\ (TypeMatches(option, op'.args[1]) /\ Rejects(option, op'.args[2])) =>
                /\ err' = InvalidArgument
                /\ get_value(option', now') = get_value(option, now)
          /\ err' # NoError => option' = option]_vars

\* C17: set_value<int>(15) through the facade has just been refused by a
\* range cell whose maximum is below 15.
C17_Witness ==
    /\ op.name = "GncOption::set_value"
    /\ op.args = <<"int", 15>>
    /\ option.kind = "GncOptionRangeValue"
    /\ option.m_max < 15
    /\ option.m_value <= option.m_max
    /\ err = InvalidArgument

\* C18: the date cell's set_value(timestamp) leaves the cell absolute with
\* get_value() the timestamp, whatever the mode was; and the two-argument
\* set_value with (ABSOLUTE, timestamp), on a cell in a relative mode,
\* leaves it absolute with get_value() the timestamp.
C18_DateSetValue ==
    /\ [][op'.name = "GncOptionDateValue::set_value" =>
             /\ err' = NoError
             /\ option'.m_type = "ABSOLUTE"
             /\ get_value(option', now') =
                    [val |-> op'.args[1], err |-> NoError]]_vars
    /\ [][(/\ op'.name = "GncOptionDateValue::set_value(DateSetterValue)"
           /\ op'.args[1] = "ABSOLUTE"
           /\ option.m_type # "ABSOLUTE") =>
             /\ err' = NoError
             /\ option'.m_type = "ABSOLUTE"
             /\ get_value(option', now') =
                    [val |-> op'.args[2], err |-> NoError]]_vars

\* C18: the two-argument set_value has just made absolute a cell that had
\* been given a relative period.
C18_Witness ==
    /\ op.name = "GncOptionDateValue::set_value(DateSetterValue)"
    /\ op.args[1] = "ABSOLUTE"
    /\ option.m_period # "TODAY"
    /\ option.m_type = "ABSOLUTE"
    /\ get_value(option, now).val = op.args[2]
    /\ op.args[2] # now

\* C19: the date cell's get_value() changes nothing and does not throw;
\* in absolute mode it returns the stored timestamp at every time of the
\* clock; in a relative mode its result is the same whatever timestamp is
\* stored, so that it depends on the mode, the period and the clock only.
C19_DateGetValue ==
    [][(op'.name = "get_value" /\ option.kind = "GncOptionDateValue") =>
          /\ option' = option
          /\ err' = NoError
          /\ option.m_type = "ABSOLUTE" => ret' = option.m_date
          /\ option.m_type # "ABSOLUTE" =>
                \A t \in TimeArgs :
                    GncOptionDateValue_get_value([option EXCEPT !.m_date = t],
                                                 now).val = ret']_vars

\* C19: get_value() has just returned, in a relative mode, a time that is
\* not the stored one.
C19_Witness ==
    /\ op.name = "get_value"
    /\ option.kind = "GncOptionDateValue"
    /\ option.m_type = "ENDING"
    /\ now > 0
    /\ ret # option.m_date

\* C20: a date cell just constructed is absolute, its period is TODAY, and
\* its get_value() is the clock's time.
C20_DateConstruction ==
    op.name = "GncOptionDateValue" =>
        /\ Constructed
        /\ err = NoError
        /\ option.m_type = "ABSOLUTE"
        /\ option.m_period = "TODAY"
        /\ get_value(option, now) = [val |-> now, err |-> NoError]

\* C20: a date cell has just been constructed after the clock had advanced.
C20_Witness ==
    /\ op.name = "GncOptionDateValue"
    /\ now > 0
    /\ option.m_type = "ABSOLUTE"
    /\ option.m_date = now

\* C21: validate(v) throws nothing and leaves the whole cell (value,
\* default, UI item and type) as it was, and on a range, validated or
\* multichoice cell it returns true exactly when set_value(v) in the same
\* state is accepted: v is in [min, max], the validator holds of v, v is a
\* key of the list.
C21_Validate ==
    [][op'.name = "validate" =>
          LET v == op'.args[1]
          IN  /\ option' = option
              /\ err' = NoError
              /\ ret' = (set_value(option, v).err = NoError)
              /\ ret' = ~Rejects(option, v)]_vars

\* C21: validate has just answered false for a key that is not in the
\* list of a multichoice cell with two choices or more.
C21_Witness ==
    /\ op.name = "validate"
    /\ option.kind = "GncOptionMultichoiceValue"
    /\ Len(option.m_choices) >= 2
    /\ ~KeyPresent(option, op.args[1])
    /\ ret = FALSE
    /\ err = NoError

\* C22: clear_ui_item() never throws, leaves the cell without a UI item
\* and otherwise as it was (UI type and value included), and a second call
\* changes nothing more.
C22_ClearUIItem ==
    [][op'.name = "OptionUIItem::clear_ui_item" =>
          /\ err' = NoError
          /\ get_ui_item(option') = NullItem
          /\ option' = [option EXCEPT !.m_ui_item = NullItem]
          /\ clear_ui_item(option') = [obj |-> option', err |-> NoError]
          /\ op.name = "OptionUIItem::clear_ui_item" => option' = option]_vars

\* C22: clear_ui_item() has just been called on a cell that can take a UI
\* item, and the cell has none.
C22_Witness ==
    /\ op.name = "OptionUIItem::clear_ui_item"
    /\ get_ui_type(option) # "INTERNAL"
    /\ get_ui_item(option) = NullItem
    /\ err = NoError

\* The classifier members of a cell.
Classifier(o) ==
    [m_section |-> o.m_section, m_name |-> o.m_name,
     m_sort_tag |-> o.m_sort_tag, m_doc_string |-> o.m_doc_string]

\* The constructors of the five cell classes.
ConstructorNames ==
    { "GncOptionValue", "GncOptionValidatedValue", "GncOptionRangeValue",
      "GncOptionMultichoiceValue", "GncOptionDateValue" }

\* C23: the cell an option is constructed with carries the section, name,
\* sort tag and doc string given to the constructor; no operation of the
\* facade changes them afterwards; and get_section, get_name, get_key and
\* get_docstring return them, get_key returning the sort tag, without
\* throwing or changing anything.
C23_ClassifierImmutable ==
    [][/\ (op'.name \in ConstructorNames /\ Constructed') =>
              Classifier(option') = op'.args[1]
       /\ (Constructed /\ Constructed') =>
              Classifier(option') = Classifier(option)
       /\ op'.name \in { "GncOption::get_section", "GncOption::get_name",
                         "GncOption::get_key", "GncOption::get_docstring" } =>
              /\ option' = option
              /\ err' = NoError
              /\ ret' = CASE op'.name = "GncOption::get_section" ->
                                 option.m_section
                          [] op'.name = "GncOption::get_name" -> option.m_name
                          [] op'.name = "GncOption::get_key" ->
                                 option.m_sort_tag
                          [] op'.name = "GncOption::get_docstring" ->
                                 option.m_doc_string]_vars

\* C23: get_key() has just returned the sort tag "baz" of an option whose
\* value has been set away from its default and which has been made
\* internal.
C23_Witness ==
    /\ op.name = "GncOption::get_key"
    /\ ret = "baz"
    /\ option.m_section = "foo" /\ option.m_name = "bar"
    /\ option.kind = "GncOptionRangeValue"
    /\ option.m_value # option.m_default_value
    /\ get_ui_type(option) = "INTERNAL"

\* C24, as stated: whatever (v, min, max, step) a range cell is
\* constructed with, its value and its default lie in [min, max] in every
\* state.
C24_RangeInvariant ==
    option.kind = "GncOptionRangeValue" =>
        /\ option.m_min <= option.m_value
        /\ option.m_value <= option.m_max
        /\ option.m_min <= option.m_default_value
        /\ option.m_default_value <= option.m_max

\* C25, as stated: the facade's set_value called with a (DateType, payload)
\* pair on a date cell leaves the cell in the mode the pair names.
C25_FacadeDateSetter ==
    [][(/\ op'.name = "GncOption::set_value"
        /\ op'.args[1] = "DateSetterValue"
        /\ option.kind = "GncOptionDateValue") =>
          option'.m_type = op'.args[2][1]]_vars

\* C26: once an option holds a cell, every operation of the facade
\* leaves it holding a cell of the same class and the same value type,
\* which is one of the alternatives of the variant.
C26_KindFixed ==
    [][Constructed =>
          /\ option'.kind = option.kind
          /\ option'.ValueType = option.ValueType
          /\ HeldByGncOption(option')]_vars

\* C26: set_value<std::string>("b") has just been called on an option that
\* holds a date cell, and it holds a date cell still.
C26_Witness ==
    /\ op.name = "GncOption::set_value"
    /\ op.args = <<"std::string", "b">>
    /\ option.kind = "GncOptionDateValue"
    /\ option.ValueType = "time64"
    /\ err = NoError

\* The make_internal members, of the cell and of the facade.
MakeInternalNames == { "OptionUIItem::make_internal", "GncOption::make_internal" }

\* C27: the UI type of a cell changes only in a make_internal() that does
\* not throw, and then to INTERNAL; a cell whose UI type is INTERNAL keeps
\* it under every operation; and a cell whose UI type is INTERNAL has no UI
\* item.  So set_ui_item, clear_ui_item and set_value never change it.
C27_UITypeStable ==
    /\ []((Constructed /\ get_ui_type(option) = "INTERNAL") =>
              get_ui_item(option) = NullItem)
    /\ [][(Constructed /\ Constructed') =>
             /\ get_ui_type(option') # get_ui_type(option) =>
                   /\ op'.name \in MakeInternalNames
                   /\ err' = NoError
                   /\ get_ui_type(option') = "INTERNAL"
             /\ get_ui_type(option) = "INTERNAL" =>
                   get_ui_type(option') = "INTERNAL"]_vars

\* C27: a date cell, which is constructed with the UI type DATE, is
\* INTERNAL after a set_value: it was made internal and has stayed so.
C27_Witness ==
    /\ op.name \in SetValueNames
    /\ option.kind = "GncOptionDateValue"
    /\ get_ui_type(option) = "INTERNAL"
    /\ get_ui_item(option) = NullItem

\* The set_value members, of the cells and of the facade.
AllSetValueNames ==
    SetValueNames \cup { "GncOptionDateValue::set_value(DateSetterValue)",
                         "GncOption::set_value" }

\* The UI members, of the cell and of the facade.
UIBindingNames ==
    { "OptionUIItem::set_ui_item", "OptionUIItem::clear_ui_item",
      "GncOption::set_ui_item" } \cup MakeInternalNames

\* The cell without its UI members.
ValuePart(o) == [o EXCEPT !.m_ui_item = NullItem, !.m_ui_type = "INTERNAL"]

\* C28: a set_value, accepted or refused, on the cell or through the
\* facade, leaves the UI item and the UI type as they were; set_ui_item,
\* clear_ui_item and make_internal, throwing or not, leave every other
\* member as it was, and with them get_value() and get_default_value().
C28_ValueUIIndependent ==
    [][/\ op'.name \in AllSetValueNames =>
             /\ get_ui_type(option') = get_ui_type(option)
             /\ get_ui_item(option') = get_ui_item(option)
       /\ op'.name \in UIBindingNames =>
             /\ ValuePart(option') = ValuePart(option)
             /\ get_value(option', now') = get_value(option, now)
             /\ get_default_value(option', now') =
                    get_default_value(option, now)]_vars

\* C28: a set_value through the facade has just been refused by a cell
\* that has a UI item attached and a value other than its default.
C28_Witness ==
    /\ op.name = "GncOption::set_value"
    /\ err = InvalidArgument
    /\ get_ui_item(option) # NullItem
    /\ option.kind = "GncOptionRangeValue"
    /\ option.m_value # option.m_default_value

\* C29: for a class with an actions_name, the plugin's add_to_window
\* function is called right after gnc_main_window_merge_actions and finds
\* the actions merged; for a class with a remove_from_window function,
\* gnc_main_window_unmerge_actions is called right after that function,
\* which finds the actions as merged as the unmerge finds them; and on a
\* window marked just_plugin_prefs no unmerge is ever called, so that
\* actions once merged stay merged.
C29_PluginWindowOrder ==
    /\ \A i \in DOMAIN trace :
          /\ (trace[i].call = "add_to_window" /\ klass.actions_name) =>
                /\ i > 1
                /\ trace[i - 1].call = "gnc_main_window_merge_actions"
                /\ trace[i].merged
          /\ (/\ trace[i].call = "gnc_main_window_unmerge_actions"
              /\ klass.remove_from_window) =>
                /\ i > 1
                /\ trace[i - 1].call = "remove_from_window"
                /\ trace[i - 1].merged = trace[i].merged
          /\ trace[i].call = "gnc_main_window_unmerge_actions" =>
                (klass.actions_name /\ ~window.just_plugin_prefs)
    /\ (/\ window.just_plugin_prefs
        /\ \E i \in DOMAIN trace :
              trace[i].call = "gnc_main_window_merge_actions") =>
          window.merged

\* C29: on a window marked just_plugin_prefs a plugin has been added and
\* removed again: the actions were merged, both functions of the plugin
\* ran, and the actions are merged still.
C29_Witness ==
    /\ window.just_plugin_prefs
    /\ pc = <<>>
    /\ Len(trace) = 3
    /\ trace[1].call = "gnc_main_window_merge_actions"
    /\ trace[2].call = "add_to_window"
    /\ trace[3].call = "remove_from_window"
    /\ window.merged

=============================================================================
